---- MODULE Spec2Model ----
(***************************************************************************)
(* A model of pi/madhava-leibniz.py: the PiSearch class (term generator,   *)
(* accumulator, digit matcher, history buffer, summary) and the __main__   *)
(* block that runs find_pi until a KeyboardInterrupt arrives.              *)
(*                                                                         *)
(* Floats.  A Python float is modelled as a signed decimal fixed-point     *)
(* number [neg, mag]: mag[1] is the integer part and mag[2..FloatDigits+1] *)
(* are the fractional decimal digits.  Division truncates at FloatDigits   *)
(* places; "{:.{prec}f}".format rounds half-up to prec places.            *)
(***************************************************************************)
EXTENDS Integers, Sequences, FiniteSets, TLC

\* ------------------------------------------------------------------ bounds
MaxIter == 121          \* find_pi's endless loop is cut after this many terms
MaxMinPlaces == 16      \* largest min_places handed to the matcher on its own
FloatDigits == 16       \* fractional decimal digits carried by a float
MaxEstIter == 3         \* iterations of find_pi run on arbitrary estimates

\* --------------------------------------------------------------- constants
max_history == 100
RecentNum == 5

\* str(pi) == "3.141592653589793"
pi_repr == <<3, 1, 4, 1, 5, 9, 2, 6, 5, 3, 5, 8, 9, 7, 9, 3>>

\* pi_str = str(pi).split('.')[-1]
pi_str == Tail(pi_repr)

Digit == 0..9

\* ----------------------------------------------------------- small helpers
is_even(x) == (x % 2) = 0

is_odd_flipped(x) == (x % 2) = 0
is_odd(x) == (x % 2) = 1

Min(a, b) == IF a < b THEN a ELSE b

Abs(x) == IF x < 0 THEN -x ELSE x

\* ------------------------------------------------------- float arithmetic
Width == FloatDigits + 1

\* the function f on 1..len as a sequence
AsSeq(f, len) == SubSeq(f, 1, len)

\* the element of a set of one element
TheOne(S) == CHOOSE v \in S : TRUE

ZeroMag == [k \in 1..Width |-> 0]

\* int 0, the class attribute PiSearch.total
ZeroFloat == [neg |-> FALSE, mag |-> ZeroMag]

RECURSIVE AddCarry(_, _, _)
AddCarry(a, b, k) ==
    IF k >= Len(a) THEN 0
    ELSE (a[k + 1] + b[k + 1] + AddCarry(a, b, k + 1)) \div 10

AddMag(a, b) ==
    AsSeq([k \in 1..Len(a) |->
        IF k = 1 THEN a[1] + b[1] + AddCarry(a, b, 1)
        ELSE (a[k] + b[k] + AddCarry(a, b, k)) % 10], Len(a))

RECURSIVE Borrow(_, _, _)
Borrow(a, b, k) ==
    IF k >= Len(a) THEN 0
    ELSE IF a[k + 1] - b[k + 1] - Borrow(a, b, k + 1) < 0 THEN 1 ELSE 0

\* a - b for magnitudes with a >= b
SubMag(a, b) ==
    AsSeq([k \in 1..Len(a) |->
        IF k = 1 THEN a[1] - b[1] - Borrow(a, b, 1)
        ELSE (a[k] - b[k] - Borrow(a, b, k) + 10) % 10], Len(a))

RECURSIVE LessFrom(_, _, _)
LessFrom(a, b, k) ==
    IF k > Len(a) THEN FALSE
    ELSE IF a[k] # b[k] THEN a[k] < b[k]
    ELSE LessFrom(a, b, k + 1)

LessMag(a, b) == LessFrom(a, b, 1)

\* x + y on floats
FAdd(x, y) ==
    IF x.neg = y.neg THEN [neg |-> x.neg, mag |-> AddMag(x.mag, y.mag)]
    ELSE IF LessMag(x.mag, y.mag)
         THEN [neg |-> y.neg, mag |-> SubMag(y.mag, x.mag)]
         ELSE IF x.mag = y.mag THEN ZeroFloat
         ELSE [neg |-> x.neg, mag |-> SubMag(x.mag, y.mag)]

RECURSIVE MulCarry(_, _, _)
MulCarry(a, m, k) ==
    IF k >= Len(a) THEN 0
    ELSE (a[k + 1] * m + MulCarry(a, m, k + 1)) \div 10

\* x * m for a float x and a small non-negative int m
FMul(x, m) ==
    [neg |-> x.neg,
     mag |-> AsSeq([k \in 1..Len(x.mag) |->
                IF k = 1 THEN x.mag[1] * m + MulCarry(x.mag, m, 1)
                ELSE (x.mag[k] * m + MulCarry(x.mag, m, k)) % 10],
                Len(x.mag))]

\* remainder of the long division num/den on reaching position k
RECURSIVE DivRem(_, _, _)
DivRem(num, den, k) ==
    IF k = 1 THEN num ELSE (DivRem(num, den, k - 1) % den) * 10

\* float(num) / den for ints num and den > 0
FDiv(num, den) ==
    [neg |-> num < 0,
     mag |-> AsSeq([k \in 1..Width |-> DivRem(Abs(num), den, k) \div den],
                   Width)]

\* "{:.{prec}f}".format(n, prec=prec): sign, integer part, prec digits
Format(n, prec) ==
    LET padded == AsSeq([k \in 1..(prec + 1) |->
                     IF k <= Len(n.mag) THEN n.mag[k] ELSE 0], prec + 1)
        unit   == AsSeq([k \in 1..(prec + 1) |->
                     IF k = prec + 1 THEN 1 ELSE 0], prec + 1)
        up     == Len(n.mag) > prec + 1 /\ n.mag[prec + 2] >= 5
        r      == IF up THEN AddMag(padded, unit) ELSE padded
    IN  [neg |-> n.neg, int |-> r[1], frac |-> SubSeq(r, 2, prec + 1)]

\* -------------------------------------------------------------- next_term
next_term_asserts(nominator, denominator) ==
    /\ (nominator = 1 \/ nominator = -1)
    /\ denominator > 0
    /\ is_odd(denominator)

next_term_unsigned(nominator, denominator) == FDiv(1, denominator)
next_term(nominator, denominator) == FDiv(nominator, denominator)

\* ---------------------------------------------------------- test_against_pi
\* s.startswith(p)
startswith(s, p) == Len(p) <= Len(s) /\ SubSeq(s, 1, Len(p)) = p

\* lines 149-152: what is returned at the first matching length k
verdict_strict(k, min_places) ==
    IF k > min_places THEN <<TRUE, k>> ELSE <<FALSE, k>>
verdict(k, min_places) ==
    IF k >= min_places THEN <<TRUE, k>> ELSE <<FALSE, k>>

\* the for loop over range(len(remainder_str))[min_places:], from index i on
RECURSIVE ScanFrom(_, _, _)
ScanFrom(remainder_str, i, min_places) ==
    IF i >= Len(remainder_str) THEN <<FALSE, 0>>
    ELSE LET k == Len(remainder_str) - i
         IN  IF startswith(pi_str, SubSeq(remainder_str, 1, k))
             THEN verdict(k, min_places)
             ELSE ScanFrom(remainder_str, i + 1, min_places)

remainder_of(n) == Format(n, Len(pi_str)).frac

test_against_pi_clamped(n, min_places) ==
    ScanFrom(remainder_of(n), Min(min_places, Len(remainder_of(n)) - 1),
             min_places)
test_against_pi_unsliced(n, min_places) ==
    ScanFrom(remainder_of(n), 0, min_places)
\* remainder_str is computed once (it is bound to its value) and scanned
test_against_pi(n, min_places) ==
    TheOne({ScanFrom(remainder_str, min_places, min_places) :
                remainder_str \in {remainder_of(n)}})

\* the candidate lengths k the loop can reach, longest first
ScannedLengths(n, min_places) ==
    {Len(remainder_of(n)) - i : i \in min_places..(Len(remainder_of(n)) - 1)}

\* ------------------------------------------------------------ last_result
last_result(t) == FMul(t, 4)

\* ------------------------------------------------------------------ history
\* lines 186-187: if len(self._history) > max_history: del self._history[0]
evict_newest(h) == IF Len(h) > max_history THEN SubSeq(h, 1, Len(h) - 1) ELSE h
evict(h) == IF Len(h) > max_history THEN Tail(h) ELSE h

\* self._history[:num]
slice_to(h, num) == SubSeq(h, 1, Min(num, Len(h)))

\* one " + 1/5" or " - 1/7" piece of history_str: the operator written and
\* the two numbers of fraction_str after lstrip('-')
piece(frac) ==
    IF frac[1] > 0
    THEN [op |-> "+", nom |-> frac[1], denom |-> frac[2]]
    ELSE [op |-> "-", nom |-> Abs(frac[1]), denom |-> frac[2]]

\* recent_history(num): the pieces appended to "..." in order
recent_history(h, num) ==
    [j \in 1..Len(slice_to(h, num)) |-> piece(slice_to(h, num)[j])]

\* ---------------------------------------------------------------- state
VARIABLES
    phase,              \* __main__: "running", "except", "summarized",
                        \* "exited", "crashed", "assert_failed"
    pc,                 \* line of find_pi / _append_history about to run
    i, operation, denominator, nominator, n,    \* locals of find_pi
    match, num_places,                          \* locals of find_pi
    total, iterations, num_digits_found,        \* attributes of PiSearch
    has_last_fraction, last_fraction,           \* hasattr, self.last_fraction
    has_history, _history,                      \* hasattr, self._history
    terms,              \* every (nominator, denominator) passed to next_term
    milestones,         \* every (num_places, iterations) logged at line 91
    summary,            \* what print_summary has printed
    exit_status,        \* process exit status, -1 while the process lives
    m_n, m_min_places, m_result, m_called,      \* a lone test_against_pi call
    max_time,           \* the argument of find_pi
    cls, inst, loc,     \* PiSearch.__dict__, two instances' __dict__ and
                        \* the locals of find_pi running on each of them
    c_n, c_acc, c_pc,   \* interrupt_test.py: n, the value about to be
                        \* stored into n, the position in the loop
    c_steps,            \* stores of line 31 carried out so far
    c_phase, c_out, c_status    \* its process state, what show_results has
                        \* printed, its exit status (-1 while it lives)

locals == <<i, operation, denominator, nominator, n, match, num_places>>

attrs == <<total, iterations, num_digits_found, has_last_fraction,
           last_fraction, has_history, _history>>

outs == <<terms, milestones, summary, exit_status>>

mvars == <<m_n, m_min_places, m_result, m_called>>

twovars == <<cls, inst, loc>>

cvars == <<c_n, c_acc, c_pc, c_phase, c_out, c_status, c_steps>>

xvars == <<max_time, twovars, cvars>>

vars == <<phase, pc, locals, attrs, outs, mvars, xvars>>

NoSummary == [started |-> 0, completed |-> 0, iterations |-> 0,
              estimate |-> ZeroFloat, fractions |-> <<>>]

\* search = PiSearch(), about to call search.find_pi() inside the try
MainInit ==
    /\ phase = "running"
    /\ pc = "L56"
    /\ i = 0 /\ operation = "add" /\ denominator = 0 /\ nominator = 0
    /\ n = ZeroFloat /\ match = FALSE /\ num_places = 0
    /\ total = ZeroFloat /\ iterations = 0 /\ num_digits_found = 0
    /\ has_last_fraction = FALSE /\ last_fraction = <<0, 0>>
    /\ has_history = FALSE /\ _history = <<>>
    /\ terms = <<>> /\ milestones = <<>>
    /\ summary = NoSummary
    /\ exit_status = -1

MatcherIdle ==
    /\ m_n = ZeroFloat /\ m_min_places = 0
    /\ m_result = <<FALSE, 0>> /\ m_called = FALSE

\* max_time=None, the default find_pi is called with at line 219
NoneTime == -1

\* ---- the class and two instances of it
\* a class body that also declared the history: _history = []
ClassAttrs_with_history ==
    [last_operation |-> "add", total |-> ZeroFloat, iterations |-> 0,
     num_digits_found |-> 0, start_time |-> NoneTime, time |-> 0,
     _history |-> <<>>]
\* the attributes set in the class body, lines 46-51
ClassAttrs ==
    [last_operation |-> "add", total |-> ZeroFloat, iterations |-> 0,
     num_digits_found |-> 0, start_time |-> NoneTime, time |-> 0]

Objs == {1, 2}

EmptyDict == [a \in {} |-> 0]

\* find_pi not entered yet on an instance
NoLocals == [entered |-> FALSE, i |-> 0, operation |-> "add"]

TwoInit ==
    /\ cls = ClassAttrs
    /\ inst = [o \in Objs |-> EmptyDict]
    /\ loc = [o \in Objs |-> NoLocals]

\* ---- interrupt_test.py, lines 9 and 29: n = 0, at the head of the loop
CounterInit ==
    /\ c_n = 0 /\ c_acc = 0 /\ c_pc = "L29"
    /\ c_phase = "loop" /\ c_out = <<>> /\ c_status = -1
    /\ c_steps = 0

Init ==
    /\ MainInit /\ MatcherIdle
    /\ max_time = NoneTime /\ TwoInit /\ CounterInit

Running(l) == phase = "running" /\ pc = l

\* lines 56-59
L56 ==
    /\ Running("L56")
    /\ operation' = "add" /\ i' = 0
    /\ pc' = "L61"
    /\ UNCHANGED <<phase, denominator, nominator, n, match, num_places,
                   attrs, outs, mvars, xvars>>

\* line 61: i += 1
L61 ==
    /\ Running("L61")
    /\ iterations < MaxIter
    /\ i' = i + 1
    /\ pc' = "L63"
    /\ UNCHANGED <<phase, operation, denominator, nominator, n, match,
                   num_places, attrs, outs, mvars, xvars>>

\* lines 63-64: if not is_odd(i): continue
L63_break ==
    /\ Running("L63")
    /\ IF ~is_odd(i)
       THEN phase' = "returned" /\ UNCHANGED pc
       ELSE pc' = "L66" /\ UNCHANGED phase
    /\ UNCHANGED <<locals, attrs, outs, mvars, xvars>>
L63 ==
    /\ Running("L63")
    /\ pc' = IF ~is_odd(i) THEN "L61" ELSE "L66"
    /\ UNCHANGED <<phase, locals, attrs, outs, mvars, xvars>>

\* line 66: denominator = i
L66_off_by_one ==
    /\ Running("L66")
    /\ denominator' = i + 1
    /\ pc' = "L68"
    /\ UNCHANGED <<phase, i, operation, nominator, n, match, num_places,
                   attrs, outs, mvars, xvars>>
L66 ==
    /\ Running("L66")
    /\ denominator' = i
    /\ pc' = "L68"
    /\ UNCHANGED <<phase, i, operation, nominator, n, match, num_places,
                   attrs, outs, mvars, xvars>>

\* line 68: if operation == 'add'
L68 ==
    /\ Running("L68")
    /\ pc' = IF operation = "add" THEN "L69" ELSE "L72"
    /\ UNCHANGED <<phase, locals, attrs, outs, mvars, xvars>>

\* lines 69 and 72: nominator = 1 / nominator = -1
L69 ==
    /\ Running("L69")
    /\ nominator' = 1
    /\ pc' = "L70"
    /\ UNCHANGED <<phase, i, operation, denominator, n, match, num_places,
                   attrs, outs, mvars, xvars>>

L72 ==
    /\ Running("L72")
    /\ nominator' = -1
    /\ pc' = "L73"
    /\ UNCHANGED <<phase, i, operation, denominator, n, match, num_places,
                   attrs, outs, mvars, xvars>>

\* lines 70 and 73: operation = 'sub' / operation = 'add'
L70_unflipped ==
    /\ Running("L70")
    /\ operation' = "add"
    /\ pc' = "L75"
    /\ UNCHANGED <<phase, i, denominator, nominator, n, match, num_places,
                   attrs, outs, mvars, xvars>>
L70 ==
    /\ Running("L70")
    /\ operation' = "sub"
    /\ pc' = "L75"
    /\ UNCHANGED <<phase, i, denominator, nominator, n, match, num_places,
                   attrs, outs, mvars, xvars>>

L73 ==
    /\ Running("L73")
    /\ operation' = "add"
    /\ pc' = "L75"
    /\ UNCHANGED <<phase, i, denominator, nominator, n, match, num_places,
                   attrs, outs, mvars, xvars>>

\* line 75: n = self.next_term(nominator, denominator); a failed assert is
\* an AssertionError nobody catches
L75 ==
    /\ Running("L75")
    /\ terms' = Append(terms, <<nominator, denominator>>)
    /\ IF next_term_asserts(nominator, denominator)
       THEN /\ n' = next_term(nominator, denominator)
            /\ pc' = "L76"
            /\ UNCHANGED <<phase, exit_status>>
       ELSE /\ phase' = "assert_failed"
            /\ exit_status' = 1
            /\ UNCHANGED <<n, pc>>
    /\ UNCHANGED <<i, operation, denominator, nominator, match, num_places,
                   attrs, milestones, summary, mvars, xvars>>

\* line 76: self.total += n
L76 ==
    /\ Running("L76")
    /\ total' = FAdd(total, n)
    /\ pc' = "L77"
    /\ UNCHANGED <<phase, locals, iterations, num_digits_found,
                   has_last_fraction, last_fraction, has_history, _history,
                   outs, mvars, xvars>>

\* line 77: self.iterations += 1
L77 ==
    /\ Running("L77")
    /\ iterations' = iterations + 1
    /\ pc' = "L78"
    /\ UNCHANGED <<phase, locals, total, num_digits_found,
                   has_last_fraction, last_fraction, has_history, _history,
                   outs, mvars, xvars>>

\* lines 78-79: self.time = ...; the clock is not part of the state
L78 ==
    /\ Running("L78")
    /\ pc' = "L80"
    /\ UNCHANGED <<phase, locals, attrs, outs, mvars, xvars>>

\* line 80: self.last_fraction = (nominator, denominator)
L80 ==
    /\ Running("L80")
    /\ last_fraction' = <<nominator, denominator>>
    /\ has_last_fraction' = TRUE
    /\ pc' = "L184"
    /\ UNCHANGED <<phase, locals, total, iterations, num_digits_found,
                   has_history, _history, outs, mvars, xvars>>

\* line 81 calls _append_history(self.last_fraction);
\* lines 184-185: if not hasattr(self, '_history'): self._history = []
L184 ==
    /\ Running("L184")
    /\ IF ~has_history
       THEN has_history' = TRUE /\ _history' = <<>>
       ELSE UNCHANGED <<has_history, _history>>
    /\ pc' = "L186"
    /\ UNCHANGED <<phase, locals, total, iterations, num_digits_found,
                   has_last_fraction, last_fraction, outs, mvars, xvars>>

\* lines 186-187
L186 ==
    /\ Running("L186")
    /\ _history' = evict(_history)
    /\ pc' = "L188"
    /\ UNCHANGED <<phase, locals, total, iterations, num_digits_found,
                   has_last_fraction, last_fraction, has_history, outs, mvars, xvars>>

\* line 188: self._history.append(val)
L188 ==
    /\ Running("L188")
    /\ _history' = Append(_history, last_fraction)
    /\ pc' = "L83"
    /\ UNCHANGED <<phase, locals, total, iterations, num_digits_found,
                   has_last_fraction, last_fraction, has_history, outs, mvars, xvars>>

\* line 83: log.debug(self.status()) reads last_fraction and last_result()
L83 ==
    /\ Running("L83")
    /\ has_last_fraction
    /\ pc' = "L85"
    /\ UNCHANGED <<phase, locals, attrs, outs, mvars, xvars>>

\* lines 85-86
L85 ==
    /\ Running("L85")
    /\ \E estimate \in {last_result(total)} :
         \E r \in {test_against_pi(estimate, num_digits_found)} :
            match' = r[1] /\ num_places' = r[2]
    /\ pc' = "L88"
    /\ UNCHANGED <<phase, i, operation, denominator, nominator, n,
                   attrs, outs, mvars, xvars>>

\* line 88: if match and (num_places > self.num_digits_found)
L88_match_only ==
    /\ Running("L88")
    /\ pc' = IF match THEN "L89" ELSE "L61"
    /\ UNCHANGED <<phase, locals, attrs, outs, mvars, xvars>>
L88 ==
    /\ Running("L88")
    /\ pc' = IF match /\ num_places > num_digits_found THEN "L89" ELSE "L61"
    /\ UNCHANGED <<phase, locals, attrs, outs, mvars, xvars>>

\* line 89: self.num_digits_found = num_places
L89_skipped ==
    /\ Running("L89")
    /\ pc' = "L91"
    /\ UNCHANGED <<phase, locals, attrs, outs, mvars, xvars>>
L89 ==
    /\ Running("L89")
    /\ num_digits_found' = num_places
    /\ pc' = "L91"
    /\ UNCHANGED <<phase, locals, total, iterations, has_last_fraction,
                   last_fraction, has_history, _history, outs, mvars, xvars>>

\* lines 90-102: log.info("Matched ...")
L91 ==
    /\ Running("L91")
    /\ milestones' = Append(milestones, <<num_places, iterations>>)
    /\ pc' = "L61"
    /\ UNCHANGED <<phase, locals, attrs, terms, summary, exit_status, mvars, xvars>>

\* a KeyboardInterrupt raised between two statements of find_pi, caught at
\* line 220; pc keeps the line the loop was cut at
Interrupt ==
    /\ phase = "running"
    /\ phase' = "except"
    /\ UNCHANGED <<pc, locals, attrs, outs, mvars, xvars>>

\* line 221: search.print_summary(); lines 193-198 print the head, line 201
\* reads self._history (AttributeError if it was never set, which leaves
\* the except clause as an uncaught exception)
print_summary ==
    /\ phase = "except"
    /\ IF has_history
       THEN /\ summary' = [started |-> summary.started + 1,
                           completed |-> summary.completed + 1,
                           iterations |-> iterations,
                           estimate |-> last_result(total),
                           fractions |-> recent_history(_history, RecentNum)]
            /\ phase' = "summarized"
            /\ UNCHANGED exit_status
       ELSE /\ summary' = [summary EXCEPT !.started = @ + 1,
                                          !.iterations = iterations,
                                          !.estimate = last_result(total)]
            /\ phase' = "crashed"
            /\ exit_status' = 1
    /\ UNCHANGED <<pc, locals, attrs, terms, milestones, mvars, xvars>>

\* line 222: sys.exit(0)
sys_exit ==
    /\ phase = "summarized"
    /\ phase' = "exited"
    /\ exit_status' = 0
    /\ UNCHANGED <<pc, locals, attrs, terms, milestones, summary, mvars, xvars>>

Next ==
    \/ L56 \/ L61 \/ L63 \/ L66 \/ L68 \/ L69 \/ L70 \/ L72 \/ L73
    \/ L75 \/ L76 \/ L77 \/ L78 \/ L80 \/ L184 \/ L186 \/ L188
    \/ L83 \/ L85 \/ L88 \/ L89 \/ L91
    \/ Interrupt \/ print_summary \/ sys_exit

Spec == Init /\ [][Next]_vars

\* ------------------------------------------- test_against_pi on its own
MkFloat(ip, ds) ==
    [neg |-> FALSE,
     mag |-> [k \in 1..Width |->
                IF k = 1 THEN ip
                ELSE IF k - 1 <= Len(ds) THEN ds[k - 1] ELSE 0]]

\* 3.140000, 3.141599, 3.555555 of the doctest, and 3.14159265
DocFloats ==
    { MkFloat(3, <<1, 4>>), MkFloat(3, <<1, 4, 1, 5, 9, 9>>),
      MkFloat(3, <<5, 5, 5, 5, 5, 5>>),
      MkFloat(3, <<1, 4, 1, 5, 9, 2, 6, 5>>) }

\* floats that agree with pi in their first j digits and go on with d's
PrefixFloats ==
    { [neg |-> FALSE,
       mag |-> [k \in 1..Width |->
                  IF k = 1 THEN 3
                  ELSE IF k - 1 <= j THEN pi_str[k - 1] ELSE d]] :
      j \in 0..Len(pi_str), d \in Digit }

MatcherInputs == DocFloats \cup PrefixFloats

MatcherInit ==
    /\ MainInit
    /\ m_n \in MatcherInputs
    /\ m_min_places \in 0..MaxMinPlaces
    /\ m_result = <<FALSE, 0>>
    /\ m_called = FALSE
    /\ max_time = NoneTime /\ TwoInit /\ CounterInit

\* ps.test_against_pi(m_n, min_places=m_min_places)
MatcherCall ==
    /\ ~m_called
    /\ m_result' = test_against_pi(m_n, m_min_places)
    /\ m_called' = TRUE
    /\ UNCHANGED <<phase, pc, locals, attrs, outs, m_n, m_min_places, xvars>>

MatcherNext == MatcherCall

SpecMatcher == MatcherInit /\ [][MatcherNext]_vars

\* --------------------------- find_pi on arbitrary estimates (SpecEstimates)
PrefixFloat(j, d) ==
    [neg |-> FALSE,
     mag |-> AsSeq([k \in 1..Width |->
                      IF k = 1 THEN 3
                      ELSE IF k - 1 <= j THEN pi_str[k - 1] ELSE d], Width)]

\* remainder carried into position k when a magnitude is divided by 4
RECURSIVE QuarterRem(_, _)
QuarterRem(a, k) ==
    IF k = 1 THEN 0 ELSE (QuarterRem(a, k - 1) * 10 + a[k - 1]) % 4

\* the float x with x * 4 = e, cut at FloatDigits places
Quarter(e) ==
    [neg |-> e.neg,
     mag |-> AsSeq([k \in 1..Len(e.mag) |->
                      (QuarterRem(e.mag, k) * 10 + e.mag[k]) \div 4],
                   Len(e.mag))]

\* values of self.total whose estimate agrees with pi in exactly the first
\* j digits, j = 0 .. 15
EstimateTotals == {Quarter(PrefixFloat(j, 0)) : j \in 0..Len(pi_str)}

\* line 61, the loop cut after MaxEstIter terms
EstL61 == iterations < MaxEstIter /\ L61

\* line 76 with any term n: self.total becomes any of EstimateTotals
EstL76 ==
    /\ Running("L76")
    /\ total' \in EstimateTotals
    /\ pc' = "L77"
    /\ UNCHANGED <<phase, locals, iterations, num_digits_found,
                   has_last_fraction, last_fraction, has_history, _history,
                   outs, mvars, xvars>>

NextEstimates ==
    \/ L56 \/ EstL61 \/ L63 \/ L66 \/ L68 \/ L69 \/ L70 \/ L72 \/ L73
    \/ L75 \/ EstL76 \/ L77 \/ L78 \/ L80 \/ L184 \/ L186 \/ L188
    \/ L83 \/ L85 \/ L88 \/ L89 \/ L91

SpecEstimates == Init /\ [][NextEstimates]_vars

\* ------------------------- find_pi left alone, for any max_time (SpecFair)
\* values of the max_time argument: None, and some numbers of seconds
MaxTimes == {NoneTime, 0, 1, 60}

FairInit ==
    /\ MainInit /\ MatcherIdle
    /\ max_time \in MaxTimes /\ TwoInit /\ CounterInit

\* the loop of find_pi with no KeyboardInterrupt
NextRun ==
    \/ L56 \/ L61 \/ L63 \/ L66 \/ L68 \/ L69 \/ L70 \/ L72 \/ L73
    \/ L75 \/ L76 \/ L77 \/ L78 \/ L80 \/ L184 \/ L186 \/ L188
    \/ L83 \/ L85 \/ L88 \/ L89 \/ L91

\* the interpreter keeps running the only thread there is
SpecFair == FairInit /\ [][NextRun]_vars /\ WF_vars(NextRun)

\* ---------------------------------------------- two PiSearch instances
\* iterations one instance runs
MaxTwoIter == 6

\* attribute lookup: the instance's own dict first, then the class
hasattr(o, a) == a \in DOMAIN inst[o] \/ a \in DOMAIN cls
getattr(o, a) == IF a \in DOMAIN inst[o] THEN inst[o][a] ELSE cls[a]

\* self.a = v writes the instance's own dict
setattr(d, a, v) == [x \in DOMAIN d \cup {a} |-> IF x = a THEN v ELSE d[x]]

\* lines 56-59 on instance o: start_time is set on the instance
TwoEnter(o) ==
    /\ ~loc[o].entered
    /\ inst' = [inst EXCEPT ![o] = setattr(@, "start_time", 0)]
    /\ loc' = [loc EXCEPT ![o] = [entered |-> TRUE, i |-> 0,
                                  operation |-> "add"]]
    /\ UNCHANGED <<cls, phase, pc, locals, attrs, outs, mvars, max_time,
                   cvars>>

\* lines 76-80 on instance o: each self.x = ... reads through the lookup
\* and writes the instance
assigned(o, nom, den) ==
    LET d1 == setattr(inst[o], "total",
                      FAdd(getattr(o, "total"), next_term(nom, den)))
        d2 == setattr(d1, "iterations", getattr(o, "iterations") + 1)
        d3 == setattr(d2, "time", 0)
    IN  setattr(d3, "last_fraction", <<nom, den>>)

\* lines 184-185 on a dict d of instance o
with_history(d) ==
    IF "_history" \in DOMAIN d \/ "_history" \in DOMAIN cls
    THEN d ELSE setattr(d, "_history", <<>>)

\* lines 186-188: the list self._history names, after the call
appended(h, val) == Append(evict(h), val)

\* lines 85-89 on a dict d that has total: the record after the matcher
recorded(d, found) ==
    LET r == test_against_pi(last_result(d["total"]), found)
    IN  IF r[1] /\ r[2] > found
        THEN setattr(d, "num_digits_found", r[2]) ELSE d

\* one pass of the loop of lines 60-102 on instance o
TwoPass(o) ==
    /\ loc[o].entered
    /\ loc[o].i < 2 * MaxTwoIter
    /\ LET i1 == loc[o].i + 1
           nom == IF loc[o].operation = "add" THEN 1 ELSE -1
           op1 == IF loc[o].operation = "add" THEN "sub" ELSE "add"
       IN  IF ~is_odd(i1)
           THEN /\ loc' = [loc EXCEPT ![o].i = i1]
                /\ UNCHANGED <<inst, cls>>
           ELSE /\ loc' = [loc EXCEPT ![o].i = i1, ![o].operation = op1]
                /\ \E d \in {with_history(assigned(o, nom, i1))} :
                     IF "_history" \in DOMAIN d
                     THEN /\ \E e \in {setattr(d, "_history",
                                         appended(d["_history"],
                                                  <<nom, i1>>))} :
                               inst' = [inst EXCEPT ![o] =
                                   recorded(e, getattr(o,
                                                "num_digits_found"))]
                          /\ cls' = cls
                     ELSE /\ inst' = [inst EXCEPT ![o] =
                                   recorded(d, getattr(o,
                                                "num_digits_found"))]
                          /\ cls' = [cls EXCEPT !["_history"] =
                                   appended(@, <<nom, i1>>)]
    /\ UNCHANGED <<phase, pc, locals, attrs, outs, mvars, max_time, cvars>>

NextTwo == \E o \in Objs : TwoEnter(o) \/ TwoPass(o)

SpecTwo == Init /\ [][NextTwo]_vars

\* ------------------------------------------- interrupt_test.py: counter
\* loop steps the counter takes, and status signals sent to it
MaxCount == 4
MaxSignals == 2

\* the places of the loop where a signal is noticed: the loop head of
\* line 29 (before the try is entered, and again at the jump back), and
\* the two halves of line 31 inside the try
InTry == {"L31_load", "L31_store"}

CLoop(l) == c_phase = "loop" /\ c_pc = l

\* everything that is not the counter script
notcounter == <<phase, pc, locals, attrs, outs, mvars, max_time, twovars>>

\* line 29 to line 30: the try is entered
CL29 ==
    /\ CLoop("L29")
    /\ c_pc' = "L31_load"
    /\ UNCHANGED <<c_n, c_acc, c_phase, c_out, c_status, c_steps, notcounter>>

\* line 31, right-hand side: n + 1
CLoad ==
    /\ CLoop("L31_load")
    /\ c_n < MaxCount
    /\ c_acc' = c_n + 1
    /\ c_pc' = "L31_store"
    /\ UNCHANGED <<c_n, c_phase, c_out, c_status, c_steps, notcounter>>

\* line 31, the store to n, then the jump back to line 29
CStore ==
    /\ CLoop("L31_store")
    /\ c_n' = c_acc
    /\ c_steps' = c_steps + 1
    /\ c_pc' = "L29"
    /\ UNCHANGED <<c_acc, c_phase, c_out, c_status, notcounter>>

\* lines 12-20 run as the handler of SIGUSR1 / SIGINFO (lines 22-23):
\* n is read and printed
CSignal ==
    /\ c_phase = "loop"
    /\ Len(c_out) < MaxSignals
    /\ c_out' = Append(c_out, [n |-> c_n, by |-> "signal"])
    /\ UNCHANGED <<c_n, c_acc, c_pc, c_phase, c_status, c_steps, notcounter>>

\* SIGINT: KeyboardInterrupt is raised where the loop is; lines 30-32 catch
\* it inside the try only, anywhere else it ends the process with a
\* traceback
CInterrupt ==
    /\ c_phase = "loop"
    /\ IF c_pc \in InTry
       THEN c_phase' = "except" /\ UNCHANGED c_status
       ELSE c_phase' = "killed" /\ c_status' = 1
    /\ UNCHANGED <<c_n, c_acc, c_pc, c_out, c_steps, notcounter>>

\* lines 33-34: show_results() and sys.exit(0)
CExcept ==
    /\ c_phase = "except"
    /\ c_out' = Append(c_out, [n |-> c_n, by |-> "except"])
    /\ c_phase' = "exited"
    /\ c_status' = 0
    /\ UNCHANGED <<c_n, c_acc, c_pc, c_steps, notcounter>>

NextCounter == CL29 \/ CLoad \/ CStore \/ CSignal \/ CInterrupt \/ CExcept

SpecCounter == Init /\ [][NextCounter]_vars

\* ======================================================== properties
\* the k-th term of the series: (+1 or -1, 2k - 1)
Term(k) == <<IF k % 2 = 1 THEN 1 ELSE -1, 2 * k - 1>>

\* the first k terms added up the way find_pi adds them
RECURSIVE SumTerms(_)
SumTerms(k) ==
    IF k = 0 THEN ZeroFloat
    ELSE FAdd(SumTerms(k - 1), next_term(Term(k)[1], Term(k)[2]))

\* the interrupt has arrived and print_summary has printed all of its lines
SummaryPrinted == phase \in {"summarized", "exited"}

\* C1: the k-th term passed to next_term is (+1 if k is odd else -1, 2k - 1),
\* and at the loop head exactly one term has been produced per odd value of
\* the loop counter (the even values produce none and flip no sign).
C1_TermAlternation ==
    /\ \A k \in 1..Len(terms) : terms[k] = Term(k)
    /\ pc = "L61" => Len(terms) = (i + 1) \div 2

C1_Witness ==
    /\ pc = "L61" /\ is_even(i) /\ Len(terms) >= 4
    /\ terms[4] = <<-1, 7>>

\* ---- the matcher on its own (SpecMatcher)
Rem == remainder_of(m_n)

MatchesAt(k) == startswith(pi_str, SubSeq(Rem, 1, k))

MaxOf(S) == CHOOSE x \in S : \A y \in S : y <= x

\* C2: the result is decided at the longest scanned length whose prefix
\* matches: (True, k) if k >= min_places, (False, k) otherwise, (False, 0)
\* if no scanned length matches; and the four doctest cases give
\* (False, 2), (True, 2), (True, 5), (False, 0).
C2_MatcherCases ==
    m_called =>
      LET S == {k \in ScannedLengths(m_n, m_min_places) : MatchesAt(k)}
      IN  /\ S = {} => m_result = <<FALSE, 0>>
          /\ S # {} => m_result = <<MaxOf(S) >= m_min_places, MaxOf(S)>>
          /\ (m_n = MkFloat(3, <<1, 4>>) /\ m_min_places = 3)
                => m_result = <<FALSE, 2>>
          /\ (m_n = MkFloat(3, <<1, 4>>) /\ m_min_places = 2)
                => m_result = <<TRUE, 2>>
          /\ (m_n = MkFloat(3, <<1, 4, 1, 5, 9, 9>>) /\ m_min_places = 1)
                => m_result = <<TRUE, 5>>
          /\ (m_n = MkFloat(3, <<5, 5, 5, 5, 5, 5>>) /\ m_min_places = 1)
                => m_result = <<FALSE, 0>>

C2_Witness ==
    /\ m_called
    /\ m_n = MkFloat(3, <<1, 4>>) /\ m_min_places = 2
    /\ m_result = <<TRUE, 2>>

\* C3 as stated: only lengths above min_places are examined, so a nonzero
\* digit count is never returned with False and always exceeds min_places.
C3_OnlyLongerLengths ==
    (m_called /\ m_result[2] > 0) =>
        (m_result[1] /\ m_result[2] > m_min_places)

\* C3 as amended: the lengths examined are 1 .. L - min_places, from
\* L - min_places downward; the digit count returned is the first of them
\* that matches (0 if none), so it never exceeds L - min_places, and it is
\* returned with True exactly when it is at least min_places.
C3_ScansShortLengths ==
    m_called =>
      LET k   == m_result[2]
          top == Len(pi_str) - m_min_places
      IN  /\ k >= 0 /\ (k > 0 => k <= top)
          /\ k > 0 => MatchesAt(k)
          /\ \A k2 \in (k + 1)..top : ~MatchesAt(k2)
          /\ m_result[1] <=> (k > 0 /\ k >= m_min_places)

C3_Witness ==
    /\ m_called
    /\ m_min_places = 3
    /\ m_result = <<FALSE, 2>>

\* C4: a nonzero digit count returned by the matcher is the length of the
\* longest prefix of the estimate's digits that is a prefix of pi's digits.
C4_LongestPrefix ==
    (m_called /\ m_result[2] > 0) =>
        m_result[2] = MaxOf({k \in 0..Len(pi_str) : MatchesAt(k)})

\* ---- the run (Spec)
\* C5: the history buffer never holds more than 100 entries.
C5_HistoryAtMost100 == Len(_history) <= max_history

\* C6: when _append_history returns, the buffer is the most recent
\* len(_history) terms generated so far, oldest first.
C6_HistoryIsRecentTerms ==
    (has_history /\ pc = "L83") =>
        _history = SubSeq(terms, Len(terms) - Len(_history) + 1, Len(terms))

C6_Witness ==
    /\ has_history /\ pc = "L83"
    /\ Len(terms) > Len(_history)
    /\ _history[1] = <<-1, 3>>

\* C7: the fractions printed by the summary are the min(5, iterations) most
\* recently added terms, oldest first, each with its sign (stated for an
\* interrupt that arrives at the loop head, between two iterations).
C7_SummaryShowsLastTerms ==
    (SummaryPrinted /\ pc = "L61") =>
        LET m == Min(RecentNum, iterations)
        IN  /\ Len(summary.fractions) = m
            /\ \A j \in 1..m :
                 summary.fractions[j] = piece(Term(iterations - m + j))

\* C8: after an interrupt the summary never fails and never runs twice, and
\* the process exits with status 0 after exactly one complete summary.
C8_SummaryOnceThenExit0 ==
    /\ phase # "crashed"
    /\ summary.completed <= 1
    /\ exit_status \in {-1, 0}
    /\ phase = "exited" => (summary.completed = 1 /\ exit_status = 0)

\* C9: the state a printed summary reports is not partial: total is the sum
\* of the first `iterations` terms, and last_fraction and the newest history
\* entry are the iterations-th term.
C9_NoPartialState ==
    SummaryPrinted =>
        /\ total = SumTerms(iterations)
        /\ has_last_fraction /\ last_fraction = Term(iterations)
        /\ Len(_history) > 0 /\ _history[Len(_history)] = Term(iterations)

\* C10 as stated: whenever last_fraction is defined it is the iterations-th
\* term.
C10_LastFractionAlways ==
    has_last_fraction => last_fraction = Term(iterations)

\* C10 as amended: whenever last_fraction is defined it is the
\* iterations-th term, except between line 77 (iterations += 1) and line 80
\* (last_fraction = ...), where it still is the term before.
C10_LastFractionOutsideUpdate ==
    has_last_fraction =>
        IF pc \in {"L78", "L80"}
        THEN last_fraction = Term(iterations - 1)
        ELSE last_fraction = Term(iterations)

C10_Witness ==
    /\ has_last_fraction
    /\ pc = "L184" /\ iterations = 4
    /\ last_fraction = <<-1, 7>>

\* ---- the record (SpecEstimates)
\* the digit count of the latest milestone, 0 if there is none
LastCount ==
    IF milestones = <<>> THEN 0 ELSE milestones[Len(milestones)][1]

\* C11: num_digits_found never decreases, and every assignment to it at
\* line 89 stores a value strictly greater than the one it replaces.
C11_RecordOnlyGrows ==
    [][ /\ num_digits_found' >= num_digits_found
        /\ (pc = "L89" /\ pc' = "L91")
              => num_digits_found' > num_digits_found ]_vars

C11_Witness ==
    /\ pc = "L61"
    /\ milestones = << <<3, 1>>, <<7, 2>> >>
    /\ num_digits_found = 7

\* the milestones' digit counts increase strictly
MilestonesIncrease ==
    \A j \in 1..(Len(milestones) - 1) : milestones[j][1] < milestones[j + 1][1]

\* at the loop head after an iteration: a milestone was logged in this
\* iteration exactly when the matcher returned (True, k) with k above the
\* record it was given, and then the record is k
MilestoneIffNewRecord ==
    (pc = "L61" /\ iterations >= 1) =>
        LET logged == milestones # <<>>
                        /\ milestones[Len(milestones)][2] = iterations
            before == IF ~logged THEN num_digits_found
                      ELSE IF Len(milestones) = 1 THEN 0
                      ELSE milestones[Len(milestones) - 1][1]
        IN  /\ logged <=> (match /\ num_places > before)
            /\ logged => (num_digits_found = num_places
                            /\ LastCount = num_places)

\* C12 as stated: a milestone is logged exactly when the matcher returns
\* (True, k) with k > num_digits_found, the milestones' digit counts
\* increase strictly, and num_digits_found always equals the digit count of
\* the latest milestone (0 if none).
C12_RecordIsLatestMilestone ==
    /\ MilestoneIffNewRecord
    /\ MilestonesIncrease
    /\ num_digits_found = LastCount

\* C12 as amended: the same, except that between line 89 and the log.info
\* of line 91 num_digits_found already is the new record k, above the
\* latest milestone, which is logged next.
C12_RecordIsLatestMilestoneOnceLogged ==
    /\ MilestoneIffNewRecord
    /\ MilestonesIncrease
    /\ pc # "L91" => num_digits_found = LastCount
    /\ pc = "L91" => (num_digits_found = num_places
                        /\ num_digits_found > LastCount)

C12_Witness ==
    /\ pc = "L61" /\ iterations = 2
    /\ milestones = << <<2, 1>>, <<5, 2>> >>
    /\ match /\ num_places = 5 /\ num_digits_found = 5

C13_AssertsHold ==
    /\ phase # "assert_failed"
    /\ pc = "L75" => next_term_asserts(nominator, denominator)
    /\ \A k \in 1..Len(terms) : next_term_asserts(terms[k][1], terms[k][2])

C13_Witness ==
    /\ phase = "running" /\ pc = "L76"
    /\ Len(terms) = 4 /\ terms[4] = <<nominator, denominator>>
    /\ nominator = -1 /\ denominator = 7

\* C14 (SpecMatcher): with min_places >= len(pi_str) the matcher returns
\* (False, 0) for every estimate.
C14_EmptyScan ==
    (m_called /\ m_min_places >= Len(pi_str)) => m_result = <<FALSE, 0>>

C14_Witness ==
    /\ m_called
    /\ m_min_places = Len(pi_str)
    /\ Rem = pi_str
    /\ m_result = <<FALSE, 0>>

\* the number of terms added into self.total so far
TermsInTotal == IF pc = "L76" THEN Len(terms) - 1 ELSE Len(terms)

\* str(4 * total) begins with "3." followed by the digits ds
EstimateBegins(ds) ==
    LET s == Format(last_result(total), Len(pi_str))
    IN  ~s.neg /\ s.int = 3 /\ SubSeq(s.frac, 1, Len(ds)) = ds

C16_RunsForever ==
    /\ [](/\ phase = "running" /\ exit_status = -1
          /\ pc = "L61" => iterations = (i + 1) \div 2)
    /\ <>(iterations = MaxIter)

C16_Witness ==
    /\ phase = "running" /\ max_time = 1
    /\ iterations = MaxIter /\ i = 2 * MaxIter - 1

\* what a caller reads of instance o's run state
View(o) ==
    [total |-> getattr(o, "total"),
     iterations |-> getattr(o, "iterations"),
     num_digits_found |-> getattr(o, "num_digits_found"),
     last_fraction |-> IF hasattr(o, "last_fraction")
                       THEN getattr(o, "last_fraction") ELSE <<>>,
     history |-> IF hasattr(o, "_history")
                 THEN getattr(o, "_history") ELSE <<>>]

\* C17 (SpecTwo): a step of one instance (the other's locals stand still)
\* leaves the total, iterations, num_digits_found, last_fraction and
\* history read through the other instance unchanged.
C17_InstancesApart ==
    [][\A o \in Objs : loc'[o] = loc[o] => View(o)' = View(o)]_vars

C17_Witness ==
    /\ getattr(1, "iterations") = 3 /\ getattr(2, "iterations") = 1
    /\ Len(View(1).history) = 3 /\ Len(View(2).history) = 1
    /\ View(2).last_fraction = <<1, 1>>
    /\ cls["iterations"] = 0

\* ---- the counter (SpecCounter)
\* the results printed by the except clause
FinalPrints == {k \in 1..Len(c_out) : c_out[k].by = "except"}

\* C19: n is the number of loop steps carried out, whatever signals were
\* handled in between (the handler leaves n alone, no increment is lost or
\* duplicated); the value about to be stored is n + 1; every status print
\* shows a count the loop has reached; and once the loop has stopped, the
\* results were printed once by the except clause and the exit status is 0.
C19_CounterAsClaimed ==
    /\ c_n = c_steps
    /\ c_pc = "L31_store" => c_acc = c_n + 1
    /\ \A k \in 1..Len(c_out) : c_out[k].n <= c_n
    /\ c_phase \notin {"loop", "except"} =>
            /\ Cardinality(FinalPrints) = 1
            /\ c_status = 0

====
